---- MODULE Spec2Model ----
(***************************************************************************)
(* The funds-transfer and balance-consistency core of the banking service  *)
(* (src/bankingdb): the account and transaction tables of database.py and  *)
(* the request handlers of routes/transaction.py and routes/account.py     *)
(* that read or write them, each request on its own MySQL connection.      *)
(*                                                                         *)
(* Money.  balance and the stored amount are DECIMAL(15,2): whole cents.   *)
(* The amount of a request is a JSON number and may carry more decimals;   *)
(* request amounts are counted in half-cents (0.005), so 2 is 0.01 and 3   *)
(* is 0.015.  Storing a value into a DECIMAL(15,2) column rounds it.       *)
(*                                                                         *)
(* Identifiers.  Account ids, customer ids and transaction ids are CHAR(36)*)
(* strings; they are numbered 1, 2, ...  0 is the empty string / None /    *)
(* SQL NULL, -1 is a string that is no UUID.                               *)
(*                                                                         *)
(* Server.  MySQL/InnoDB at its default isolation, REPEATABLE READ: the    *)
(* SELECTs of a transaction read one snapshot, an UPDATE reads and locks   *)
(* the current row.  sql_mode is the server's setting, strict or not.      *)
(* Values beyond the range of DECIMAL(15,2) are not modelled.              *)
(*                                                                         *)
(* The Flask-SQLAlchemy revision of the service (banking_api/api.py, on    *)
(* SQLite) declares the same tables; its account resource and its take_loan*)
(* route are modelled on the same table variables, with amounts in whole   *)
(* cents.  Its request parsers hand the id arguments on as strings, and    *)
(* the id columns are BINARY(16): whether the driver stores such a value   *)
(* or raises depends on library versions the repository does not pin, so   *)
(* a write of a parsed id has both outcomes.                               *)
(***************************************************************************)
EXTENDS Integers, FiniteSets, Sequences, TLC

\* ------------------------------------------------------------------ bounds
NumConns == 2        \* connections (requests in flight at once)
MaxAccounts == 3     \* account ids 1..MaxAccounts; 1 and 2 exist initially
MaxBalance == 1      \* largest initial balance, in cents
MaxAmount == 2       \* largest request amount, in half-cents
MaxRows == 1         \* uuid4 draws for transaction ids before the model stops
MaxLoans == 2        \* rows of loan before the model stops
MaxPayments == 2     \* rows of loan_payment before the model stops
MaxPrincipal == 2    \* largest principal or payment of a request, in cents

MaxClock == 1        \* readings of the clock: 0..MaxClock

Conns == 1..NumConns
AccountIds == 1..MaxAccounts
Customers == {1, 2}
NULL == 0
NotUUID == -1
NoUser == -1

VARIABLES
    sql_mode,     \* the server's sql_mode: "STRICT" or "NON_STRICT"
    account,      \* committed rows of table account: id -> [customer_id, balance]
    transaction,  \* committed rows of table transaction (a set of records)
    pc,           \* per connection: where its handler stands
    req,          \* per connection: the request it serves (or served last)
    resp,         \* per connection: the response it returned last
    wbal,         \* per connection: uncommitted balance writes (id -> balance)
    wrows,        \* per connection: uncommitted inserted transaction rows
    uuids,        \* how many transaction ids uuid.uuid4() has handed out
    connection,   \* per connection: "none", "open" or "closed"
    loan,         \* committed rows of table loan (a set of records)
    loan_payment  \* committed rows of table loan_payment (a set of records)

vars == <<sql_mode, account, transaction, pc, req, resp, wbal, wrows, uuids,
          connection, loan, loan_payment>>

\* ------------------------------------------------------------ the schema
\* The account table without its CHECK constraint.
check_balance_dropped(balance) == TRUE

\* CONSTRAINT check_balance_positive CHECK (balance >= 0)
check_balance_positive(balance) == balance >= 0

\* CONSTRAINT check_amount_positive CHECK (amount > 0)
check_amount_positive(amount) == amount > 0

\* A value v (in half-cents) stored into a DECIMAL(15,2) column: the nearest
\* cent; a value half-way between two cents goes to either, by the rounding of
\* the server for the literal's type.
DECIMAL_15_2(v) ==
    IF v % 2 = 0 THEN {v \div 2} ELSE {(v - 1) \div 2, (v + 1) \div 2}

\* A connection that commits every statement as it runs.
autocommit_on == TRUE

\* pymysql.connect(**DB_CONFIG): DB_CONFIG sets no autocommit, so a connection
\* runs one transaction until commit() or rollback().
autocommit == FALSE

NoWrites == [a \in {} |-> 0]

Row(customer_id, balance) == [customer_id |-> customer_id, balance |-> balance]

Tx(id, from, to, type, amount, timestamp) ==
    [transaction_id |-> id, from_account_id |-> from, to_account_id |-> to,
     transaction_type |-> type, amount |-> amount,
     transaction_timestamp |-> timestamp]

\* ---------------------------------------------------- storage: InnoDB rows
\* The account table with a connection's balance writes applied.
ApplyWrites(acc, w) ==
    [a \in DOMAIN acc |->
        IF a \in DOMAIN w THEN [acc[a] EXCEPT !.balance = w[a]] ELSE acc[a]]

\* The balance an UPDATE of connection c works on: its own uncommitted write,
\* else the committed row (an UPDATE reads the current row, not the snapshot).
CurrentBalance(c, a) ==
    IF a \in DOMAIN wbal[c] THEN wbal[c][a] ELSE account[a].balance

\* Rows without locks: no UPDATE ever waits.
LockedByOther_never(c, a) == FALSE

\* An UPDATE holds the row's lock until its transaction ends.
LockedByOther(c, a) == \E d \in Conns \ {c} : a \in DOMAIN wbal[d]

\* Another transaction holds an uncommitted row with this primary key.
KeyHeldByOther(c, id) ==
    \E d \in Conns \ {c} : \E t \in wrows[d] : t.transaction_id = id

KeyExists(c, id) ==
    \/ \E t \in transaction : t.transaction_id = id
    \/ \E t \in wrows[c] : t.transaction_id = id

\* A statement of connection c has left it with balance writes w and inserted
\* rows r: they stay uncommitted, or are committed at once under autocommit.
Execute(c, w, r) ==
    IF autocommit
    THEN /\ account' = ApplyWrites(account, w)
         /\ transaction' = transaction \cup r
         /\ wbal' = [wbal EXCEPT ![c] = NoWrites]
         /\ wrows' = [wrows EXCEPT ![c] = {}]
    ELSE /\ UNCHANGED <<account, transaction>>
         /\ wbal' = [wbal EXCEPT ![c] = w]
         /\ wrows' = [wrows EXCEPT ![c] = r]

\* connection.commit()
Commit(c) ==
    /\ account' = ApplyWrites(account, wbal[c])
    /\ transaction' = transaction \cup wrows[c]
    /\ wbal' = [wbal EXCEPT ![c] = NoWrites]
    /\ wrows' = [wrows EXCEPT ![c] = {}]

\* A failure that leaves the connection's transaction open, its writes pending.
Rollback_skipped(c) == UNCHANGED <<account, transaction, wbal, wrows>>

\* connection.rollback(), or connection.close() with the transaction open
Rollback(c) ==
    /\ UNCHANGED <<account, transaction>>
    /\ wbal' = [wbal EXCEPT ![c] = NoWrites]
    /\ wrows' = [wrows EXCEPT ![c] = {}]

\* datetime.now(): a reading of the server's clock, stored to the second.  The
\* clock does not run backwards: a reading is not before any reading that a
\* ledger row, committed or not, already holds.  Readings are counted from
\* the earliest one that matters: 0 when no row holds a reading.
datetime_now ==
    LET held == {r.transaction_timestamp :
                    r \in transaction \cup UNION {wrows[d] : d \in Conns}}
    IN  IF held = {} THEN {0}
        ELSE {t \in 0..MaxClock : \A h \in held : h <= t}

\* ------------------------------------------------------------- requests
\* A request: the handler (op) and the fields of its body and path.  amount is
\* <<present, value>>: the key may be absent (or None), and then value is 0.
Request(op, customer_id, a1, a2, amount, type) ==
    [op |-> op, customer_id |-> customer_id, sender_account_id |-> a1,
     receiver_account_id |-> a2, has_amount |-> amount[1], amount |-> amount[2],
     transaction_type |-> type]

NoAmount == <<FALSE, 0>>
Amount(m) == <<TRUE, m>>
NoRequest == Request("none", NULL, NULL, NULL, NoAmount, "none")

\* Connections are interchangeable: a request is served on the first free one.
Free(c) ==
    /\ pc[c] = "idle"
    /\ \A d \in Conns : d < c => pc[d] # "idle"

\* connection = get_db_connection()
get_db_connection(c) == connection' = [connection EXCEPT ![c] = "open"]

\* The handler returns before it has asked for a connection.
not_connected(c) == connection' = [connection EXCEPT ![c] = "none"]

\* cursor.close(); connection.close()
close(c) == connection' = [connection EXCEPT ![c] = "closed"]

\* The handler of connection c returns response r; the finally clause of
\* money_transfer closes the cursor and the connection on the way out.
Return(c, r) ==
    /\ pc' = [pc EXCEPT ![c] = "idle"]
    /\ resp' = [resp EXCEPT ![c] = r]
    /\ close(c)

\* ------------------------------------------------------- money_transfer
\* The checks without the comparison of the sender's owner with the caller.
money_transfer_checks_any_caller(customer_id, sender, receiver, amount, acc) ==
    IF customer_id = NoUser THEN "404 customer_id is None"
    ELSE IF customer_id \notin Customers THEN "404 no customer"
    ELSE IF sender = NULL \/ receiver = NULL \/ ~amount[1] \/ amount[2] = 0
        THEN "400 all fields are required"
    ELSE IF sender = NotUUID \/ receiver = NotUUID THEN "400 invalid UUID"
    ELSE IF amount[2] <= 0 THEN "400 amount must be greater than 0"
    ELSE IF sender \notin DOMAIN acc THEN "404 no sender account"
    ELSE IF receiver \notin DOMAIN acc THEN "404 no receiver account"
    ELSE IF 2 * acc[sender].balance < amount[2] THEN "400 insufficient balance"
    ELSE "ok"

\* The checks without the test of the amount's sign.
money_transfer_checks_any_amount(customer_id, sender, receiver, amount, acc) ==
    IF customer_id = NoUser THEN "404 customer_id is None"
    ELSE IF customer_id \notin Customers THEN "404 no customer"
    ELSE IF sender = NULL \/ receiver = NULL \/ ~amount[1] \/ amount[2] = 0
        THEN "400 all fields are required"
    ELSE IF sender = NotUUID \/ receiver = NotUUID THEN "400 invalid UUID"
    ELSE IF sender \notin DOMAIN acc THEN "404 no sender account"
    ELSE IF acc[sender].customer_id # customer_id THEN "403 access denied"
    ELSE IF receiver \notin DOMAIN acc THEN "404 no receiver account"
    ELSE IF 2 * acc[sender].balance < amount[2] THEN "400 insufficient balance"
    ELSE "ok"

\* The checks with the receiver looked up before the owner is compared.
money_transfer_checks_receiver_first(customer_id, sender, receiver, amount, acc) ==
    IF customer_id = NoUser THEN "404 customer_id is None"
    ELSE IF customer_id \notin Customers THEN "404 no customer"
    ELSE IF sender = NULL \/ receiver = NULL \/ ~amount[1] \/ amount[2] = 0
        THEN "400 all fields are required"
    ELSE IF sender = NotUUID \/ receiver = NotUUID THEN "400 invalid UUID"
    ELSE IF amount[2] <= 0 THEN "400 amount must be greater than 0"
    ELSE IF sender \notin DOMAIN acc THEN "404 no sender account"
    ELSE IF receiver \notin DOMAIN acc THEN "404 no receiver account"
    ELSE IF acc[sender].customer_id # customer_id THEN "403 access denied"
    ELSE IF 2 * acc[sender].balance < amount[2] THEN "400 insufficient balance"
    ELSE "ok"

\* Lines 536-578: the lookups and checks before the first UPDATE, in the
\* order of the code.  customer_id is what the user row of the JWT identity
\* holds: NoUser when there is no such user row, NULL when the row names no
\* customer.  acc is the account table as the transaction's snapshot shows it.
money_transfer_checks(customer_id, sender, receiver, amount, acc) ==
    IF customer_id = NoUser THEN "404 customer_id is None"
    ELSE IF customer_id \notin Customers THEN "404 no customer"
    ELSE IF sender = NULL \/ receiver = NULL \/ ~amount[1] \/ amount[2] = 0
        THEN "400 all fields are required"
    ELSE IF sender = NotUUID \/ receiver = NotUUID THEN "400 invalid UUID"
    ELSE IF amount[2] <= 0 THEN "400 amount must be greater than 0"
    ELSE IF sender \notin DOMAIN acc THEN "404 no sender account"
    ELSE IF acc[sender].customer_id # customer_id THEN "403 access denied"
    ELSE IF receiver \notin DOMAIN acc THEN "404 no receiver account"
    ELSE IF 2 * acc[sender].balance < amount[2] THEN "400 insufficient balance"
    ELSE "ok"

\* A handler that logs the failure of a statement and carries on: what the
\* other statements wrote is committed and the request reports success.
mt_except_swallowed(c, e) ==
    /\ Commit(c)
    /\ Return(c, "201 money transfer is successful")
    /\ UNCHANGED <<loan, loan_payment, sql_mode, req, uuids>>

\* except Exception as e: connection.rollback(); return {'error': str(e)}, 500
mt_except(c, e) ==
    /\ Rollback(c)
    /\ Return(c, e)
    /\ UNCHANGED <<loan, loan_payment, sql_mode, req, uuids>>

\* The request arrives; its SELECTs read one snapshot (REPEATABLE READ), so
\* the checks are one step.
money_transfer(c, customer_id, sender, receiver, amount) ==
    /\ Free(c)
    /\ req' = [req EXCEPT ![c] =
            Request("money_transfer", customer_id, sender, receiver, amount, "TRANSFER")]
    /\ LET r == money_transfer_checks(customer_id, sender, receiver, amount, account)
       IN  IF r = "ok"
           THEN /\ pc' = [pc EXCEPT ![c] = "debit"]
                /\ resp' = [resp EXCEPT ![c] = "pending"]
                /\ get_db_connection(c)
           ELSE Return(c, r)
    /\ UNCHANGED <<loan, loan_payment, sql_mode, account, transaction, wbal, wrows, uuids>>

\* UPDATE account SET balance = balance - %s WHERE account_id = sender
mt_debit(c) ==
    /\ pc[c] = "debit"
    /\ ~LockedByOther(c, req[c].sender_account_id)
    /\ LET a == req[c].sender_account_id IN
       IF a \notin DOMAIN account
       THEN /\ pc' = [pc EXCEPT ![c] = "credit"]
            /\ UNCHANGED <<loan, loan_payment, sql_mode, account, transaction, req, resp, wbal, wrows, uuids, connection>>
       ELSE \E b \in DECIMAL_15_2(2 * CurrentBalance(c, a) - req[c].amount) :
            IF check_balance_positive(b)
            THEN /\ Execute(c, [x \in DOMAIN wbal[c] \cup {a} |->
                                   IF x = a THEN b ELSE wbal[c][x]], wrows[c])
                 /\ pc' = [pc EXCEPT ![c] = "credit"]
                 /\ UNCHANGED <<loan, loan_payment, sql_mode, req, resp, uuids, connection>>
            ELSE mt_except(c, "500 check_balance_positive")

\* UPDATE account SET balance = balance + %s WHERE account_id = receiver
mt_credit(c) ==
    /\ pc[c] = "credit"
    /\ ~LockedByOther(c, req[c].receiver_account_id)
    /\ LET a == req[c].receiver_account_id IN
       IF a \notin DOMAIN account
       THEN /\ pc' = [pc EXCEPT ![c] = "insert"]
            /\ UNCHANGED <<loan, loan_payment, sql_mode, account, transaction, req, resp, wbal, wrows, uuids, connection>>
       ELSE \E b \in DECIMAL_15_2(2 * CurrentBalance(c, a) + req[c].amount) :
            /\ Execute(c, [x \in DOMAIN wbal[c] \cup {a} |->
                              IF x = a THEN b ELSE wbal[c][x]], wrows[c])
            /\ pc' = [pc EXCEPT ![c] = "insert"]
            /\ UNCHANGED <<loan, loan_payment, sql_mode, req, resp, uuids, connection>>

\* INSERT INTO Transaction (from_account_id, to_account_id, transaction_type,
\* amount, transaction_timestamp): no transaction_id, the primary key, which
\* has no default.  In strict mode the statement fails; otherwise the column
\* takes the implicit default, the empty string.
mt_insert(c) ==
    /\ pc[c] = "insert"
    /\ sql_mode = "NON_STRICT" => ~KeyHeldByOther(c, NULL)
    /\ IF sql_mode = "STRICT" THEN mt_except(c, "500 no default for transaction_id")
       ELSE IF KeyExists(c, NULL) THEN mt_except(c, "500 duplicate entry for PRIMARY")
       ELSE IF \/ req[c].sender_account_id \notin DOMAIN account
               \/ req[c].receiver_account_id \notin DOMAIN account
            THEN mt_except(c, "500 foreign key")
       ELSE \E m \in DECIMAL_15_2(req[c].amount), transaction_timestamp \in datetime_now :
            IF check_amount_positive(m)
            THEN /\ Execute(c, wbal[c], wrows[c] \cup
                        {Tx(NULL, req[c].sender_account_id,
                            req[c].receiver_account_id, "TRANSFER", m,
                            transaction_timestamp)})
                 /\ pc' = [pc EXCEPT ![c] = "commit"]
                 /\ UNCHANGED <<loan, loan_payment, sql_mode, req, resp, uuids, connection>>
            ELSE mt_except(c, "500 check_amount_positive")

\* connection.commit(); return {'message': 'Money transfer is successful'}, 201
mt_commit(c) ==
    /\ pc[c] = "commit"
    /\ Commit(c)
    /\ Return(c, "201 money transfer is successful")
    /\ UNCHANGED <<loan, loan_payment, sql_mode, req, uuids>>

\* The statement a connection waits to run is blocked by another
\* transaction's lock: the server gives up the wait (lock wait timeout, or
\* this transaction is the victim of a deadlock) and the statement raises.
Blocked(c) ==
    \/ pc[c] = "debit" /\ LockedByOther(c, req[c].sender_account_id)
    \/ pc[c] = "credit" /\ LockedByOther(c, req[c].receiver_account_id)
    \/ pc[c] = "insert" /\ sql_mode = "NON_STRICT" /\ KeyHeldByOther(c, NULL)

mt_lock_wait(c) ==
    /\ Blocked(c)
    /\ mt_except(c, "500 lock wait")

\* ------------------------------------------------ update_account_balance
\* DB_CONFIG: 'cursorclass': pymysql.cursors.DictCursor.  fetchone() returns
\* the row as a dict keyed by column name.
cursorclass == "DictCursor"

\* current_balance = result[0] on the fetched row: a dict has no key 0.
result_0_raises == cursorclass = "DictCursor"

\* PUT /accounts/<account_id>/balance with body {amount}: a signed amount
\* added to the balance.  One SELECT, then one UPDATE and the commit.
update_account_balance(c, account_id, amount) ==
    /\ Free(c)
    /\ req' = [req EXCEPT ![c] =
            Request("update_account_balance", NULL, account_id, NULL, amount, "none")]
    /\ UNCHANGED <<loan, loan_payment, sql_mode, pc, transaction, wbal, wrows, uuids>>
    /\ IF account_id = NotUUID
       THEN /\ resp' = [resp EXCEPT ![c] = "200 error: invalid UUID"]
            /\ not_connected(c)
            /\ UNCHANGED account
       ELSE IF ~amount[1]
       THEN /\ resp' = [resp EXCEPT ![c] = "400 amount is required"]
            /\ not_connected(c)
            /\ UNCHANGED account
       ELSE IF account_id \notin DOMAIN account
       THEN /\ resp' = [resp EXCEPT ![c] = "404 account not found"]
            /\ get_db_connection(c)
            /\ UNCHANGED account
       ELSE IF result_0_raises
       THEN /\ resp' = [resp EXCEPT ![c] = "500 KeyError: 0"]
            /\ get_db_connection(c)
            /\ UNCHANGED account
       ELSE LET new_balance == 2 * account[account_id].balance + amount[2] IN
            IF new_balance < 0
            THEN /\ resp' = [resp EXCEPT ![c] = "400 insufficient funds"]
                 /\ get_db_connection(c)
                 /\ UNCHANGED account
            ELSE /\ ~LockedByOther(c, account_id)
                 /\ \E b \in DECIMAL_15_2(new_balance) :
                       /\ check_balance_positive(b)
                       /\ account' = [account EXCEPT ![account_id].balance = b]
                 /\ resp' = [resp EXCEPT ![c] = "200 account balance updated"]
                 /\ close(c)

\* --------------------------------------------------------- create_account
AccountTypes == {"CHECKING", "SAVINGS"}

\* A new account that starts with a cent on it.
new_account_row_funded(customer_id) == Row(customer_id, 1)

\* The parameters of the INSERT: the balance is the literal 0.00, whatever the
\* body of the request holds.
new_account_row(customer_id) == Row(customer_id, 0)

\* POST /accounts: INSERT INTO account (uuid4, customer_id, account_type,
\* 0.00, now, branch_id) and commit.  customer_id NULL: the field is missing.
\* The new row takes the next unused account id.
create_account(c, customer_id, account_type) ==
    /\ Free(c)
    /\ DOMAIN account # AccountIds
    /\ req' = [req EXCEPT ![c] =
            Request("create_account", customer_id, NULL, NULL, NoAmount, account_type)]
    /\ UNCHANGED <<loan, loan_payment, sql_mode, pc, transaction, wbal, wrows, uuids>>
    /\ IF customer_id = NULL
       THEN /\ resp' = [resp EXCEPT ![c] = "400 missing required fields"]
            /\ not_connected(c)
            /\ UNCHANGED account
       ELSE IF account_type \notin AccountTypes
       THEN /\ resp' = [resp EXCEPT ![c] = "400 invalid account type"]
            /\ not_connected(c)
            /\ UNCHANGED account
       ELSE IF customer_id \notin Customers \/ ~check_balance_positive(0)
       THEN /\ resp' = [resp EXCEPT ![c] = "500 integrity error"]
            /\ get_db_connection(c)
            /\ UNCHANGED account
       ELSE LET account_id == CHOOSE a \in AccountIds \ DOMAIN account :
                    \A x \in AccountIds \ DOMAIN account : a <= x
            IN  /\ account' = (account_id :> new_account_row(customer_id)) @@ account
                /\ resp' = [resp EXCEPT ![c] = "201 account created"]
                /\ close(c)

\* ----------------------------------------------------- create_transaction
TransactionTypes == {"DEPOSIT", "WITHDRAWAL", "TRANSFER"}

\* POST /transactions: INSERT INTO transaction (uuid4, from_account_id,
\* to_account_id or NULL, transaction_type, amount, now) and commit.  No
\* balance is read or written.  from NULL: the field is missing.
create_transaction(c, from, to, type, amount) ==
    /\ Free(c)
    /\ req' = [req EXCEPT ![c] =
            Request("create_transaction", NULL, from, to, amount, type)]
    /\ UNCHANGED <<loan, loan_payment, sql_mode, pc, account, wbal, wrows>>
    /\ IF from = NULL \/ ~amount[1]
       THEN /\ resp' = [resp EXCEPT ![c] = "400 missing required fields"]
            /\ not_connected(c)
            /\ UNCHANGED <<transaction, uuids>>
       ELSE IF type \notin TransactionTypes
       THEN /\ resp' = [resp EXCEPT ![c] = "400 invalid transaction type"]
            /\ not_connected(c)
            /\ UNCHANGED <<transaction, uuids>>
       ELSE IF type = "TRANSFER" /\ to = NULL
       THEN /\ resp' = [resp EXCEPT ![c] = "400 to account id is required"]
            /\ not_connected(c)
            /\ UNCHANGED <<transaction, uuids>>
       ELSE /\ uuids < MaxRows
            /\ uuids' = uuids + 1
            /\ IF \/ from \notin DOMAIN account
                  \/ to # NULL /\ to \notin DOMAIN account
               THEN /\ resp' = [resp EXCEPT ![c] = "500 integrity error"]
                    /\ get_db_connection(c)
                    /\ UNCHANGED transaction
               ELSE /\ ~LockedByOther(c, from)
                    /\ to # NULL => ~LockedByOther(c, to)
                    /\ \E m \in DECIMAL_15_2(amount[2]),
                          transaction_timestamp \in datetime_now :
                          IF check_amount_positive(m)
                          THEN /\ transaction' = transaction \cup
                                      {Tx(uuids + 1, from, to, type, m,
                                          transaction_timestamp)}
                               /\ resp' = [resp EXCEPT ![c] = "201 transaction created"]
                               /\ close(c)
                          ELSE /\ resp' = [resp EXCEPT ![c] = "500 integrity error"]
                               /\ get_db_connection(c)
                               /\ UNCHANGED transaction

\* DELETE /transactions/<transaction_id>: DELETE FROM transaction WHERE
\* transaction_id = %s and commit.  The empty string is no UUID.
delete_transaction(c, transaction_id) ==
    /\ Free(c)
    /\ req' = [req EXCEPT ![c] =
            Request("delete_transaction", NULL, transaction_id, NULL, NoAmount, "none")]
    /\ UNCHANGED <<loan, loan_payment, sql_mode, pc, account, wbal, wrows, uuids>>
    /\ IF transaction_id = NULL \/ transaction_id = NotUUID
       THEN /\ resp' = [resp EXCEPT ![c] = "200 error: invalid UUID"]
            /\ not_connected(c)
            /\ UNCHANGED transaction
       ELSE IF \A t \in transaction : t.transaction_id # transaction_id
       THEN /\ resp' = [resp EXCEPT ![c] = "404 transaction not found"]
            /\ get_db_connection(c)
            /\ UNCHANGED transaction
       ELSE /\ transaction' = {t \in transaction : t.transaction_id # transaction_id}
            /\ resp' = [resp EXCEPT ![c] = "200 transaction deleted"]
            /\ close(c)

\* --------------------------------------------------------- delete_account
\* The transaction table without its foreign key on from_account_id.
from_account_fk_dropped(account_id) == FALSE

\* FOREIGN KEY (from_account_id) REFERENCES account(account_id) ON DELETE
\* RESTRICT: a row of transaction names the account as its source.
from_account_fk(account_id) ==
    \E t \in transaction : t.from_account_id = account_id

\* FOREIGN KEY (to_account_id) REFERENCES account(account_id) ON DELETE SET
\* NULL: the rows that name the deleted account as destination lose it.
to_account_fk(rows, account_id) ==
    {IF t.to_account_id = account_id THEN [t EXCEPT !.to_account_id = NULL] ELSE t :
        t \in rows}

\* The DELETE waits while another transaction holds the row's lock or an
\* uncommitted ledger row that names the account.
ReferencedByOther(c, account_id) ==
    \E d \in Conns \ {c} : \E t \in wrows[d] :
        t.from_account_id = account_id \/ t.to_account_id = account_id

\* DELETE /accounts/<account_id>: DELETE FROM account WHERE account_id = %s
\* and commit; 404 when no row was deleted.
delete_account(c, account_id) ==
    /\ Free(c)
    /\ req' = [req EXCEPT ![c] =
            Request("delete_account", NULL, account_id, NULL, NoAmount, "none")]
    /\ UNCHANGED <<loan, loan_payment, sql_mode, pc, wbal, wrows, uuids>>
    /\ IF account_id = NotUUID
       THEN /\ resp' = [resp EXCEPT ![c] = "200 error: invalid UUID"]
            /\ not_connected(c)
            /\ UNCHANGED <<account, transaction>>
       ELSE IF account_id \notin DOMAIN account
       THEN /\ resp' = [resp EXCEPT ![c] = "404 account not found"]
            /\ get_db_connection(c)
            /\ UNCHANGED <<account, transaction>>
       ELSE /\ ~LockedByOther(c, account_id)
            /\ ~ReferencedByOther(c, account_id)
            /\ IF from_account_fk(account_id)
               THEN /\ resp' = [resp EXCEPT ![c] = "500 integrity error"]
                    /\ get_db_connection(c)
                    /\ UNCHANGED <<account, transaction>>
               ELSE /\ account' = [a \in DOMAIN account \ {account_id} |-> account[a]]
                    /\ transaction' = to_account_fk(transaction, account_id)
                    /\ resp' = [resp EXCEPT ![c] = "200 account deleted"]
                    /\ close(c)

\* ---------------------------------------------------------------- readers
\* Rows of the account table as a SELECT at READ UNCOMMITTED would show them:
\* with the pending writes of every connection.
account_view_uncommitted(c) ==
    [a \in DOMAIN account |->
        IF \E d \in Conns : a \in DOMAIN wbal[d]
        THEN [account[a] EXCEPT !.balance =
                 wbal[CHOOSE d \in Conns : a \in DOMAIN wbal[d]][a]]
        ELSE account[a]]

\* Rows of the account table as a SELECT of connection c shows them: the
\* committed rows, with the connection's own pending writes.
account_view(c) == ApplyWrites(account, wbal[c])

\* Rows of the transaction table as a SELECT of connection c shows them.
transaction_view(c) == transaction \cup wrows[c]

\* The orders in which a SELECT without ORDER BY may return the rows S: the
\* server is free to return them in any order.
fetchall(S) ==
    {q \in [1..Cardinality(S) -> S] : \A i, j \in DOMAIN q : i # j => q[i] # q[j]}

\* jsonify(rows), 200
jsonify(rows) == "200 " \o ToString(rows)

\* GET /accounts: SELECT * FROM account
get_accounts(c) ==
    /\ Free(c)
    /\ req' = [req EXCEPT ![c] =
            Request("get_accounts", NULL, NULL, NULL, NoAmount, "none")]
    /\ resp' = [resp EXCEPT ![c] = jsonify(account_view(c))]
    /\ close(c)
    /\ UNCHANGED <<loan, loan_payment, sql_mode, account, transaction, pc, wbal, wrows, uuids>>

\* GET /transactions: SELECT * FROM transaction
get_transactions(c) ==
    /\ Free(c)
    /\ req' = [req EXCEPT ![c] =
            Request("get_transactions", NULL, NULL, NULL, NoAmount, "none")]
    /\ \E rows \in fetchall(transaction_view(c)) :
          resp' = [resp EXCEPT ![c] = jsonify(rows)]
    /\ close(c)
    /\ UNCHANGED <<loan, loan_payment, sql_mode, account, transaction, pc, wbal, wrows, uuids>>

\* GET /accounts/<account_id>/transactions: SELECT * FROM transaction WHERE
\* from_account_id = %s OR to_account_id = %s, with no ORDER BY.
get_account_transactions(c, account_id) ==
    /\ Free(c)
    /\ req' = [req EXCEPT ![c] =
            Request("get_account_transactions", NULL, account_id, NULL, NoAmount, "none")]
    /\ IF account_id = NotUUID
       THEN /\ resp' = [resp EXCEPT ![c] = "200 error: invalid UUID"]
            /\ not_connected(c)
       ELSE /\ \E rows \in fetchall({t \in transaction_view(c) :
                          \/ t.from_account_id = account_id
                          \/ t.to_account_id = account_id}) :
                   resp' = [resp EXCEPT ![c] = jsonify(rows)]
            /\ close(c)
    /\ UNCHANGED <<loan, loan_payment, sql_mode, account, transaction, pc, wbal, wrows, uuids>>

\* ------------------------------------ banking_api/api.py: account resource
\* A parsed id (a str) bound to a BINARY(16) column when the session flushes:
\* the value is stored, or the bind raises and the request ends in 500.
flush_str_as_BINARY == {"stored", "TypeError"}

\* account_args.parse_args(): customer_id must be a UUID, account_type one of
\* the choices, balance a number >= 0 (0.0 when the field is absent).  The
\* message of the first argument that fails, or "ok".
account_args(customer_id, account_type, balance) ==
    IF customer_id = NULL \/ customer_id = NotUUID THEN "400 valid customer UUID is required"
    ELSE IF account_type \notin AccountTypes THEN "400 account type must be CHECKING or SAVINGS"
    ELSE IF balance[1] /\ balance[2] < 0 THEN "400 balance must be >= 0"
    ELSE "ok"

\* PUT /api/accounts/<account_id>: every column of the row, the balance among
\* them, is overwritten with the parsed arguments and the session commits.
\* SQLite does not enforce the foreign key on customer_id.
AccountResource_put(c, account_id, customer_id, account_type, balance) ==
    /\ Free(c)
    /\ req' = [req EXCEPT ![c] =
            Request("AccountResource.put", customer_id, account_id, NULL, balance, account_type)]
    /\ close(c)
    /\ UNCHANGED <<loan, loan_payment, sql_mode, pc, transaction, wbal, wrows, uuids>>
    /\ LET r == account_args(customer_id, account_type, balance) IN
       IF r # "ok"
       THEN /\ resp' = [resp EXCEPT ![c] = r]
            /\ UNCHANGED account
       ELSE IF account_id = NotUUID
       THEN /\ resp' = [resp EXCEPT ![c] = "500 ValueError: badly formed UUID"]
            /\ UNCHANGED account
       ELSE IF account_id \notin DOMAIN account
       THEN /\ resp' = [resp EXCEPT ![c] = "404 account not found"]
            /\ UNCHANGED account
       ELSE \E flush \in flush_str_as_BINARY, b \in DECIMAL_15_2(balance[2]) :
            IF flush = "TypeError" \/ ~check_balance_positive(b)
            THEN /\ resp' = [resp EXCEPT ![c] = "500 statement error"]
                 /\ UNCHANGED account
            ELSE /\ account' = [account EXCEPT ![account_id] = Row(customer_id, b)]
                 /\ resp' = [resp EXCEPT ![c] = "200 account"]

\* POST /api/accounts: a row with the parsed arguments is added and the
\* session commits.  The new row takes the next unused account id.
AccountResourceAll_post(c, customer_id, account_type, balance) ==
    /\ Free(c)
    /\ DOMAIN account # AccountIds
    /\ req' = [req EXCEPT ![c] =
            Request("AccountResourceAll.post", customer_id, NULL, NULL, balance, account_type)]
    /\ close(c)
    /\ UNCHANGED <<loan, loan_payment, sql_mode, pc, transaction, wbal, wrows, uuids>>
    /\ LET r == account_args(customer_id, account_type, balance) IN
       IF r # "ok"
       THEN /\ resp' = [resp EXCEPT ![c] = r]
            /\ UNCHANGED account
       ELSE \E flush \in flush_str_as_BINARY, b \in DECIMAL_15_2(balance[2]) :
            IF flush = "TypeError" \/ ~check_balance_positive(b)
            THEN /\ resp' = [resp EXCEPT ![c] = "500 statement error"]
                 /\ UNCHANGED account
            ELSE LET account_id == CHOOSE a \in AccountIds \ DOMAIN account :
                         \A x \in AccountIds \ DOMAIN account : a <= x
                 IN  /\ account' = (account_id :> Row(customer_id, b)) @@ account
                     /\ resp' = [resp EXCEPT ![c] = "201 accounts"]

\* ------------------------------------------- routes/loan.py: create_loan
\* Principals and payments of the loan routes are in whole cents.
LoanTypes == {"HOME", "AUTO", "PERSONAL"}

\* A row of loan, as far as the loan routes read it.
LoanRow(loan_id, customer_id, loan_type, principal_amount) ==
    [loan_id |-> loan_id, customer_id |-> customer_id, loan_type |-> loan_type,
     principal_amount |-> principal_amount, status |-> "ACTIVE"]

\* CONSTRAINT check_principal_positive CHECK (principal_amount > 0)
check_principal_positive(principal_amount) == principal_amount > 0

\* str(uuid.uuid4()) for a new row of loan: a value no row holds.
new_loan_id == Cardinality(loan) + 1

\* POST /loans with body {customer_id, loan_type, principal_amount,
\* interest_rate, start_date, end_date}.  The row is inserted with status
\* 'ACTIVE'; the foreign key on customer and the CHECK on the principal are
\* the server's.
create_loan(c, customer_id, loan_type, principal_amount, start_date, end_date) ==
    /\ Free(c)
    /\ req' = [req EXCEPT ![c] =
            Request("create_loan", customer_id, NULL, NULL, principal_amount, loan_type)]
    /\ UNCHANGED <<loan_payment, sql_mode, pc, account, transaction, wbal, wrows, uuids>>
    /\ IF ~principal_amount[1]
       THEN /\ resp' = [resp EXCEPT ![c] = "400 missing required fields"]
            /\ not_connected(c)
            /\ UNCHANGED loan
       ELSE IF customer_id = NotUUID
       THEN /\ resp' = [resp EXCEPT ![c] = "200 error: invalid UUID"]
            /\ not_connected(c)
            /\ UNCHANGED loan
       ELSE IF loan_type \notin LoanTypes
       THEN /\ resp' = [resp EXCEPT ![c] = "400 invalid loan type"]
            /\ not_connected(c)
            /\ UNCHANGED loan
       ELSE IF start_date >= end_date
       THEN /\ resp' = [resp EXCEPT ![c] = "400 start date must be before end date"]
            /\ not_connected(c)
            /\ UNCHANGED loan
       ELSE IF \/ customer_id \notin Customers
               \/ ~check_principal_positive(principal_amount[2])
       THEN /\ resp' = [resp EXCEPT ![c] = "500 integrity error"]
            /\ get_db_connection(c)
            /\ UNCHANGED loan
       ELSE /\ Cardinality(loan) < MaxLoans
            /\ loan' = loan \cup
                  {LoanRow(new_loan_id, customer_id, loan_type, principal_amount[2])}
            /\ resp' = [resp EXCEPT ![c] = "201 loan created"]
            /\ close(c)

\* ----------------------------- routes/loan_payment.py: create_loan_payment
\* CONSTRAINT check_payment_positive CHECK (payment_amount > 0) and
\* CONSTRAINT check_remaining_non_negative CHECK (remaining_balance >= 0)
check_payment_positive(payment_amount) == payment_amount > 0
check_remaining_non_negative(remaining_balance) == remaining_balance >= 0

\* POST /loan_payments with body {loan_id, payment_amount}.  The principal
\* is read with one SELECT and taken out of the fetched row as result[0];
\* the remaining balance is the principal less this payment.
create_loan_payment(c, loan_id, payment_amount) ==
    /\ Free(c)
    /\ req' = [req EXCEPT ![c] =
            Request("create_loan_payment", NULL, loan_id, NULL, payment_amount, "none")]
    /\ UNCHANGED <<loan, sql_mode, pc, account, transaction, wbal, wrows, uuids>>
    /\ IF loan_id = NULL \/ ~payment_amount[1]
       THEN /\ resp' = [resp EXCEPT ![c] = "400 missing required fields"]
            /\ not_connected(c)
            /\ UNCHANGED loan_payment
       ELSE IF loan_id = NotUUID
       THEN /\ resp' = [resp EXCEPT ![c] = "200 error: invalid UUID"]
            /\ not_connected(c)
            /\ UNCHANGED loan_payment
       ELSE IF \A l \in loan : l.loan_id # loan_id
       THEN /\ resp' = [resp EXCEPT ![c] = "404 loan not found"]
            /\ get_db_connection(c)
            /\ UNCHANGED loan_payment
       ELSE IF result_0_raises
       THEN /\ resp' = [resp EXCEPT ![c] = "500 KeyError: 0"]
            /\ get_db_connection(c)
            /\ UNCHANGED loan_payment
       ELSE LET result == CHOOSE l \in loan : l.loan_id = loan_id
                remaining_balance == result.principal_amount - payment_amount[2]
            IN  IF remaining_balance < 0
                THEN /\ resp' = [resp EXCEPT ![c] =
                            "400 payment amount exceeds remaining principal"]
                     /\ get_db_connection(c)
                     /\ UNCHANGED loan_payment
                ELSE IF \/ ~check_payment_positive(payment_amount[2])
                        \/ ~check_remaining_non_negative(remaining_balance)
                THEN /\ resp' = [resp EXCEPT ![c] = "500 integrity error"]
                     /\ get_db_connection(c)
                     /\ UNCHANGED loan_payment
                ELSE /\ Cardinality(loan_payment) < MaxPayments
                     /\ loan_payment' = loan_payment \cup
                           {[loan_payment_id |-> Cardinality(loan_payment) + 1,
                             loan_id |-> loan_id,
                             payment_amount |-> payment_amount[2],
                             remaining_balance |-> remaining_balance]}
                     /\ resp' = [resp EXCEPT ![c] = "201 loan payment recorded"]
                     /\ close(c)

\* --------------------------------------------- banking_api/api.py: take_loan
\* loan_args.parse_args() on the body: loan_type is one of the choices and
\* principal_amount passes validate_positive_number.
loan_args(loan_type, principal_amount) ==
    IF loan_type \notin LoanTypes THEN "400 loan type is required"
    ELSE IF ~principal_amount[1] \/ principal_amount[2] <= 0
    THEN "400 principal amount is required"
    ELSE "ok"

\* Loan.query.filter_by(customer_id=customer_id, status='ACTIVE').count()
existing_loans(customer_id) ==
    Cardinality({l \in loan : l.customer_id = customer_id /\ l.status = "ACTIVE"})

\* POST /api/take-loan up to the decision to create the loan: the customer
\* of the token is looked up and their ACTIVE loans are counted, each with a
\* SELECT of its own.  customer_id_hex is NULL for a token without the claim.
take_loan(c, customer_id_hex, loan_type, principal_amount, start_date, end_date) ==
    /\ Free(c)
    /\ req' = [req EXCEPT ![c] =
            Request("take_loan", customer_id_hex, start_date, end_date,
                    principal_amount, loan_type)]
    /\ UNCHANGED <<loan, loan_payment, sql_mode, account, transaction, wbal, wrows, uuids>>
    /\ IF customer_id_hex = NULL
       THEN Return(c, "403 customer id not found for the user")
       ELSE IF loan_args(loan_type, principal_amount) # "ok"
       THEN Return(c, loan_args(loan_type, principal_amount))
       ELSE IF customer_id_hex \notin Customers
       THEN Return(c, "404 customer not found")
       ELSE IF existing_loans(customer_id_hex) >= 1
       THEN Return(c, "400 customer already has an active loan")
       ELSE /\ pc' = [pc EXCEPT ![c] = "loan_insert"]
            /\ get_db_connection(c)
            /\ UNCHANGED resp

\* db.session.add(loan); db.session.commit(): the INSERT and its commit.
\* The row gets status 'ACTIVE'; check_dates_valid is the table's.
take_loan_commit(c) ==
    /\ pc[c] = "loan_insert"
    /\ UNCHANGED <<loan_payment, sql_mode, account, transaction, wbal, wrows, uuids, req>>
    /\ IF req[c].sender_account_id >= req[c].receiver_account_id
       THEN /\ Return(c, "500 IntegrityError: check_dates_valid")
            /\ UNCHANGED loan
       ELSE /\ Cardinality(loan) < MaxLoans
            /\ loan' = loan \cup
                  {LoanRow(new_loan_id, req[c].customer_id,
                           req[c].transaction_type, req[c].amount)}
            /\ Return(c, "201 loan created")

\* ------------------------------------------------------------------ Init
\* The tables outlive the service: the account table holds any rows its
\* constraints admit.  Accounts 1 and 2 exist, of customers 1 and 2.
Init ==
    /\ sql_mode \in {"STRICT", "NON_STRICT"}
    /\ \E b1, b2 \in {b \in -1..MaxBalance : check_balance_positive(b)} :
          account = (1 :> Row(1, b1)) @@ (2 :> Row(2, b2))
    /\ transaction = {}
    /\ pc = [c \in Conns |-> "idle"]
    /\ req = [c \in Conns |-> NoRequest]
    /\ resp = [c \in Conns |-> "none"]
    /\ wbal = [c \in Conns |-> NoWrites]
    /\ wrows = [c \in Conns |-> {}]
    /\ uuids = 0
    /\ connection = [c \in Conns |-> "none"]
    /\ loan = {}
    /\ loan_payment = {}

\* Requests in flight at once: owners moving whole cents between the accounts
\* there are, and the administrative handlers beside them.
Next ==
    \E c \in Conns :
        \/ \E s, r \in DOMAIN account, b \in 1..MaxBalance :
              money_transfer(c, account[s].customer_id, s, r, Amount(2 * b))
        \/ mt_debit(c)
        \/ mt_credit(c)
        \/ mt_insert(c)
        \/ mt_commit(c)
        \/ mt_lock_wait(c)
        \/ \E a \in DOMAIN account, m \in {-2, 2} :
              update_account_balance(c, a, Amount(m))
        \/ \E a \in DOMAIN account :
              create_transaction(c, a, NULL, "DEPOSIT", Amount(2))
        \/ \E t \in 1..MaxRows : delete_transaction(c, t)
        \/ create_account(c, 1, "CHECKING")

Spec == Init /\ [][Next]_vars

\* One transfer at a time, over every shape of request.
AccountInputs == AccountIds \cup {NULL, NotUUID}
AmountInputs == {NoAmount} \cup {Amount(m) : m \in -1..MaxAmount}

NextSeq ==
    \/ \E k \in Customers \cup {NULL, NoUser}, s, r \in AccountInputs,
          m \in AmountInputs : money_transfer(1, k, s, r, m)
    \/ mt_debit(1)
    \/ mt_credit(1)
    \/ mt_insert(1)
    \/ mt_commit(1)

SpecSeq == Init /\ [][NextSeq]_vars

\* One request at a time: the administrative handlers over every shape of
\* request, and transfers by owners.
NextAdmin ==
    \/ \E s, r \in DOMAIN account, m \in 1..MaxAmount :
          money_transfer(1, account[s].customer_id, s, r, Amount(m))
    \/ mt_debit(1)
    \/ mt_credit(1)
    \/ mt_insert(1)
    \/ mt_commit(1)
    \/ \E a \in AccountIds \cup {NotUUID}, m \in {NoAmount, Amount(-2), Amount(2)} :
          update_account_balance(1, a, m)
    \/ \E a \in {1, 3, NULL}, b \in {2, 3, NULL},
          t \in {"DEPOSIT", "TRANSFER", "GIFT"}, m \in {NoAmount, Amount(0), Amount(2)} :
          create_transaction(1, a, b, t, m)
    \/ \E t \in (0..MaxRows) \cup {NotUUID} : delete_transaction(1, t)
    \/ \E k \in {1, 3, NULL}, t \in {"CHECKING", "LOAN"} : create_account(1, k, t)

SpecAdmin == Init /\ [][NextAdmin]_vars

\* Two requests race for one balance: an account holds a > 0, and its owner
\* sends a transfer of a to the other account on each connection, the second
\* arriving while the first is in flight.
InitRace ==
    /\ Init
    /\ \E a \in DOMAIN account : account[a].balance > 0

NextRace ==
    \E c \in Conns :
        \/ \E s \in DOMAIN account, r \in DOMAIN account :
              /\ resp[c] = "none"
              /\ account[s].balance > 0
              /\ r # s
              /\ \A d \in Conns : req[d].op # "none" => req[d].sender_account_id = s
              /\ money_transfer(c, account[s].customer_id, s, r,
                                Amount(2 * account[s].balance))
        \/ mt_debit(c)
        \/ mt_credit(c)
        \/ mt_insert(c)
        \/ mt_commit(c)
        \/ mt_lock_wait(c)

SpecRace == InitRace /\ [][NextRace]_vars

\* Two requests cross: both accounts hold money, one owner sends a transfer
\* that the balance covers to the other account, and the other owner sends one
\* back on the other connection while the first is in flight.
InitCross ==
    /\ Init
    /\ \A a \in DOMAIN account : account[a].balance > 0

NextCross ==
    \E c \in Conns :
        \/ \E s \in DOMAIN account, r \in DOMAIN account, b \in 1..MaxBalance :
              /\ resp[c] = "none"
              /\ r # s
              /\ b <= account[s].balance
              /\ \A d \in Conns : req[d].op # "none" =>
                    (req[d].sender_account_id = r /\ req[d].receiver_account_id = s)
              /\ money_transfer(c, account[s].customer_id, s, r, Amount(2 * b))
        \/ mt_debit(c)
        \/ mt_credit(c)
        \/ mt_insert(c)
        \/ mt_commit(c)
        \/ mt_lock_wait(c)

SpecCross == InitCross /\ [][NextCross]_vars

\* Some connection holds writes it has not committed.
InFlight == \E d \in Conns : wbal[d] # NoWrites \/ wrows[d] # {}

\* Readers beside transfers: owners move whole cents on the two connections,
\* and a reader arrives while a transfer holds writes it has not committed.
NextRead ==
    \E c \in Conns :
        \/ \E s, r \in DOMAIN account, b \in 1..MaxBalance :
              money_transfer(c, account[s].customer_id, s, r, Amount(2 * b))
        \/ mt_debit(c)
        \/ mt_credit(c)
        \/ mt_insert(c)
        \/ mt_commit(c)
        \/ mt_lock_wait(c)
        \/ InFlight /\ get_accounts(c)
        \/ InFlight /\ get_transactions(c)

SpecRead == Init /\ [][NextRead]_vars

\* One request at a time: ledger entries are created, by transfers and by the
\* administrative route, and deleted, and the ledger of an account is queried.
NextQuery ==
    \/ \E s, r \in DOMAIN account, b \in 1..MaxBalance :
          money_transfer(1, account[s].customer_id, s, r, Amount(2 * b))
    \/ mt_debit(1)
    \/ mt_credit(1)
    \/ mt_insert(1)
    \/ mt_commit(1)
    \/ \E a \in DOMAIN account, b \in DOMAIN account \cup {NULL},
          t \in {"DEPOSIT", "TRANSFER"} :
          create_transaction(1, a, b, t, Amount(2))
    \/ \E t \in 1..MaxRows : delete_transaction(1, t)
    \/ \E a \in AccountIds \cup {NotUUID} : get_account_transactions(1, a)

SpecQuery == Init /\ [][NextQuery]_vars

\* One request at a time on the Flask-SQLAlchemy revision's account resource:
\* accounts are created and overwritten, over every shape of request.
BalanceInputs == {NoAmount} \cup {Amount(2 * b) : b \in -1..MaxBalance}

NextOrm ==
    \/ \E a \in AccountIds \cup {NotUUID}, k \in Customers \cup {NotUUID},
          t \in {"CHECKING", "LOAN"}, b \in BalanceInputs :
          AccountResource_put(1, a, k, t, b)
    \/ \E k \in Customers \cup {NotUUID}, t \in {"CHECKING", "LOAN"},
          b \in BalanceInputs :
          AccountResourceAll_post(1, k, t, b)

SpecOrm == Init /\ [][NextOrm]_vars

\* One request at a time: accounts are created through either revision's
\* route, over every shape of request, beside ledger entries being recorded.
NextCreate ==
    \/ \E k \in {1, 3, NULL}, t \in {"CHECKING", "LOAN"} : create_account(1, k, t)
    \/ \E k \in Customers \cup {NotUUID}, t \in {"CHECKING", "LOAN"},
          b \in BalanceInputs :
          AccountResourceAll_post(1, k, t, b)
    \/ \E a \in DOMAIN account : create_transaction(1, a, NULL, "DEPOSIT", Amount(2))

SpecCreate == Init /\ [][NextCreate]_vars

\* Accounts are deleted beside transfers in flight and ledger entries being
\* recorded, on the two connections.
NextDelete ==
    \E c \in Conns :
        \/ \E s, r \in DOMAIN account, b \in 1..MaxBalance :
              money_transfer(c, account[s].customer_id, s, r, Amount(2 * b))
        \/ mt_debit(c)
        \/ mt_credit(c)
        \/ mt_insert(c)
        \/ mt_commit(c)
        \/ mt_lock_wait(c)
        \/ \E a, b \in DOMAIN account :
              create_transaction(c, a, b, "TRANSFER", Amount(2))
        \/ \E a \in AccountIds \cup {NotUUID} : delete_account(c, a)

SpecDelete == Init /\ [][NextDelete]_vars

\* The loan routes, one request at a time.
PrincipalInputs == {NoAmount} \cup {Amount(p) : p \in 0..MaxPrincipal}

NextLoan ==
    \/ \E k \in Customers \cup {3, NotUUID}, t \in {"HOME", "GIFT"},
          p \in PrincipalInputs, s, e \in 0..MaxClock :
          create_loan(1, k, t, p, s, e)
    \/ \E l \in (0..MaxLoans) \cup {NotUUID},
          p \in {NoAmount} \cup {Amount(m) : m \in 0..(MaxPrincipal + 1)} :
          create_loan_payment(1, l, p)

SpecLoan == Init /\ [][NextLoan]_vars

\* take_loan requests of the customers, served by threads that interleave
\* between the count of the ACTIVE loans and the INSERT.
NextTakeLoan ==
    \/ \E c \in Conns, k \in Customers \cup {NULL}, p \in {Amount(0), Amount(1)},
          e \in 0..MaxClock :
          take_loan(c, k, "HOME", p, 0, e)
    \/ \E c \in Conns : take_loan_commit(c)

SpecTakeLoan == Init /\ [][NextTakeLoan]_vars

\* ------------------------------------------------------------ properties
Transfer201 == "201 money transfer is successful"

\* A step of the handler that connection c runs for a money_transfer.
TransferStep(c) == pc[c] # "idle" /\ pc'[c] # pc[c]

\* C1: in every reachable committed state, under any interleaving of
\* money_transfer, update_account_balance and create_account requests, the
\* balance of every account is >= 0.
C1_BalanceNonNegative == \A a \in DOMAIN account : account[a].balance >= 0

\* Two transfers have raced for the last cent of an account: one is committed,
\* the other's debit was refused, and the account stands at 0.
C1_Witness ==
    \E c, d \in Conns :
        /\ resp[c] = "500 check_balance_positive"
        /\ resp[d] = Transfer201
        /\ req[d].sender_account_id = req[c].sender_account_id
        /\ account[req[c].sender_account_id].balance = 0

\* C4: the debit, the credit and the ledger insert of one money_transfer
\* commit together or not at all: a step of a transfer either is its commit,
\* which applies all three to the committed state, or changes no committed
\* balance and no ledger row -- whatever it fails on after the first UPDATE.
C4_TransferAtomic ==
    [][\A c \in Conns : TransferStep(c) =>
          IF resp'[c] = Transfer201
          THEN LET s == req[c].sender_account_id
                   r == req[c].receiver_account_id
                   a == req[c].amount \div 2
               IN  /\ account' = [account EXCEPT ![s].balance = @ - a,
                                                   ![r].balance = @ + a]
                   /\ \E t \in 0..MaxClock :
                         LET row == Tx(NULL, s, r, "TRANSFER", a, t) IN
                         /\ row \notin transaction
                         /\ transaction' = transaction \cup {row}
          ELSE account' = account /\ transaction' = transaction]_vars

\* A transfer failed on its INSERT, after both UPDATEs had run, while another
\* request was in flight; nothing of it is left.
C4_Witness ==
    \E c \in Conns :
        /\ resp[c] = "500 no default for transaction_id"
        /\ pc[c] = "idle"
        /\ req[c].sender_account_id # req[c].receiver_account_id
        /\ wbal[c] = NoWrites
        /\ transaction = {}
        /\ \E d \in Conns \ {c} : pc[d] # "idle"

\* A request arrives on connection c and its handler op takes its first step.
Arrives(c, op) ==
    /\ pc[c] = "idle"
    /\ req'[c].op = op
    /\ req'[c] # req[c] \/ resp'[c] # resp[c] \/ pc'[c] # pc[c]

\* The committed tables and the uncommitted writes are as they were.
NothingWritten ==
    /\ account' = account
    /\ transaction' = transaction
    /\ wbal' = wbal
    /\ wrows' = wrows

\* C3 (as the specification states it): every successful money_transfer of
\* amount a from X to a different account Y leaves balance(X) = balance(X)
\* before - a and balance(X) + balance(Y) as before.
C3_Original ==
    [][(pc[1] = "commit" /\ resp'[1] = Transfer201
            /\ req[1].sender_account_id # req[1].receiver_account_id) =>
          LET X == req[1].sender_account_id
              Y == req[1].receiver_account_id
          IN  /\ 2 * account'[X].balance = 2 * account[X].balance - req[1].amount
              /\ account'[X].balance + account'[Y].balance
                    = account[X].balance + account[Y].balance]_vars

\* The caller is a customer, both account ids are UUIDs and the amount is a
\* positive number: the request passes the checks on its shape.
WellFormed(q) ==
    /\ q.customer_id \in Customers
    /\ q.sender_account_id \in AccountIds
    /\ q.receiver_account_id \in AccountIds
    /\ q.has_amount
    /\ q.amount > 0

\* The sender account of request q exists and belongs to another customer.
NotOwner(q) ==
    /\ q.sender_account_id \in DOMAIN account
    /\ account[q.sender_account_id].customer_id # q.customer_id

\* C6 (as the specification states it): every money_transfer whose caller is
\* not the owner of the existing sender account fails with AccessDenied and
\* writes nothing, whatever the balance.
C6_Original ==
    [][(Arrives(1, "money_transfer") /\ NotOwner(req'[1])) =>
          /\ resp'[1] = "403 access denied"
          /\ pc'[1] = "idle"
          /\ NothingWritten]_vars

\* C6 (amended): every money_transfer of a positive amount between two
\* well-formed account ids, by a caller who is a customer and not the owner of
\* the existing sender account, fails with AccessDenied and writes nothing,
\* whatever the balance and whether or not the receiver exists.
C6_AccessDenied ==
    [][(Arrives(1, "money_transfer") /\ WellFormed(req'[1]) /\ NotOwner(req'[1])) =>
          /\ resp'[1] = "403 access denied"
          /\ pc'[1] = "idle"
          /\ NothingWritten]_vars

\* A caller was denied an account of another customer that holds enough for
\* the transfer.
C6_Witness ==
    /\ req[1].op = "money_transfer"
    /\ pc[1] = "idle"
    /\ resp[1] = "403 access denied"
    /\ NotOwner(req[1])
    /\ 2 * account[req[1].sender_account_id].balance >= req[1].amount
    /\ req[1].receiver_account_id \in DOMAIN account

\* The preconditions of a transfer, each by itself.
Fails(p, q) ==
    CASE p = "amount" -> ~q.has_amount \/ q.amount <= 0
      [] p = "sender" -> q.sender_account_id \notin DOMAIN account
      [] p = "receiver" -> q.receiver_account_id \notin DOMAIN account
      [] p = "owner" -> NotOwner(q)
      [] p = "balance" -> /\ q.sender_account_id \in DOMAIN account
                          /\ 2 * account[q.sender_account_id].balance < q.amount

\* The failure each precondition is reported with.
Outcome(p) ==
    CASE p = "amount" -> "InvalidAmount"
      [] p = "sender" -> "AccountNotFound(sender)"
      [] p = "receiver" -> "AccountNotFound(receiver)"
      [] p = "owner" -> "AccessDenied"
      [] p = "balance" -> "InsufficientFunds"

\* The failure a response of money_transfer reports.
Kind(r) ==
    CASE r \in {"400 all fields are required",
                "400 amount must be greater than 0"} -> "InvalidAmount"
      [] r = "404 no sender account" -> "AccountNotFound(sender)"
      [] r = "404 no receiver account" -> "AccountNotFound(receiver)"
      [] r = "403 access denied" -> "AccessDenied"
      [] r = "400 insufficient balance" -> "InsufficientFunds"
      [] OTHER -> r

\* A transfer that arrives with a customer as caller and two account ids of
\* UUID form reports the first failing precondition in the order given, and
\* goes on to its debit when none fails.
ChecksInOrder(order) ==
    (/\ Arrives(1, "money_transfer")
        /\ req'[1].customer_id \in Customers
        /\ req'[1].sender_account_id \in AccountIds
        /\ req'[1].receiver_account_id \in AccountIds) =>
          LET failing == {i \in DOMAIN order : Fails(order[i], req'[1])} IN
          IF failing = {}
          THEN pc'[1] = "debit"
          ELSE /\ pc'[1] = "idle"
               /\ \E i \in failing :
                     /\ \A j \in failing : i <= j
                     /\ Kind(resp'[1]) = Outcome(order[i])

\* C7 (as the specification states it): the preconditions are evaluated in
\* the order amount, sender exists, receiver exists, caller owns sender,
\* balance; the first that fails is the one reported.
C7_Original ==
    [][ChecksInOrder(<<"amount", "sender", "receiver", "owner", "balance">>)]_vars

\* C7 (amended): the preconditions are evaluated in the order amount, sender
\* exists, caller owns sender, receiver exists, balance; the first that fails
\* is the one reported, so a non-owned sender with a non-existent receiver
\* yields AccessDenied.
C7_CheckOrder ==
    [][ChecksInOrder(<<"amount", "sender", "owner", "receiver", "balance">>)]_vars

\* A request on which ownership, the receiver's existence and the balance all
\* fail has been answered.
C7_Witness ==
    /\ req[1].op = "money_transfer"
    /\ pc[1] = "idle"
    /\ resp[1] = "403 access denied"
    /\ NotOwner(req[1])
    /\ req[1].receiver_account_id \in AccountIds \ DOMAIN account
    /\ 2 * account[req[1].sender_account_id].balance < req[1].amount

\* C2 (as the specification states it): of two concurrent transfers of a from
\* an account holding exactly a, exactly one succeeds, the other fails with
\* InsufficientFunds and no other error, and the sender ends at 0.
C2_Original ==
    \A c, d \in Conns :
        (/\ c # d
         /\ pc[c] = "idle" /\ resp[c] # "none"
         /\ pc[d] = "idle" /\ resp[d] # "none") =>
            /\ {resp[c], resp[d]} = {Transfer201, "400 insufficient balance"}
            /\ account[req[c].sender_account_id].balance = 0

\* C8 (as the specification states it): a money_transfer whose amount exceeds
\* the sender's balance -- when the request arrives, or when its debit runs
\* after a concurrent transfer has committed -- fails with InsufficientFunds
\* and writes nothing.
C8_Original ==
    [][\A c \in Conns :
          (/\ Arrives(c, "money_transfer") \/ (pc[c] = "debit" /\ pc'[c] # "debit")
           /\ 2 * account[req'[c].sender_account_id].balance < req'[c].amount) =>
              /\ resp'[c] = "400 insufficient balance"
              /\ pc'[c] = "idle"
              /\ account' = account
              /\ transaction' = transaction]_vars

\* Some committed balance differs after the step.
BalanceMutated ==
    \E a \in DOMAIN account : account'[a].balance # account[a].balance

\* The step appends exactly one row to the ledger and removes none.
LedgerAppended ==
    \E t \in transaction' : t \notin transaction /\ transaction' = transaction \cup {t}

\* C5 (as the specification states it): over all operations, every committed
\* balance mutation comes with exactly one ledger entry, and every change of
\* the ledger is one entry appended with a committed balance mutation.
C5_Original ==
    [][/\ BalanceMutated => LedgerAppended
       /\ transaction' # transaction => (LedgerAppended /\ BalanceMutated)]_vars

\* C9 (as the specification states it): update_account_balance on a missing
\* account returns NotFound and changes nothing; on a delta that would make
\* the balance negative it returns InsufficientFunds and changes nothing;
\* otherwise the stored balance becomes old balance + delta.
C9_Original ==
    [][(/\ Arrives(1, "update_account_balance")
        /\ req'[1].sender_account_id \in AccountIds
        /\ req'[1].has_amount) =>
          LET a == req'[1].sender_account_id IN
          IF a \notin DOMAIN account
          THEN resp'[1] = "404 account not found" /\ account' = account
          ELSE IF 2 * account[a].balance + req'[1].amount < 0
          THEN resp'[1] = "400 insufficient funds" /\ account' = account
          ELSE /\ resp'[1] = "200 account balance updated"
               /\ 2 * account'[a].balance = 2 * account[a].balance + req'[1].amount]_vars

\* C10 (as the specification states it): a deposit or withdrawal that the
\* account can take is carried out and appends, with the balance change,
\* exactly one ledger entry of kind DEPOSIT or WITHDRAWAL whose source is the
\* account and whose destination is null.
C10_Original ==
    [][(/\ Arrives(1, "update_account_balance")
        /\ req'[1].has_amount
        /\ req'[1].amount # 0
        /\ req'[1].sender_account_id \in DOMAIN account
        /\ 2 * account[req'[1].sender_account_id].balance + req'[1].amount >= 0) =>
          \E t \in transaction' :
              /\ t \notin transaction
              /\ transaction' = transaction \cup {t}
              /\ t.transaction_type \in {"DEPOSIT", "WITHDRAWAL"}
              /\ t.from_account_id = req'[1].sender_account_id
              /\ t.to_account_id = NULL]_vars

\* The step appends to the ledger exactly one entry of kind TRANSFER from the
\* sender to the receiver of request q over the amount of q.
TransferEntryAppended(q) ==
    \E t \in transaction' :
        /\ t \notin transaction
        /\ transaction' = transaction \cup {t}
        /\ t.transaction_type = "TRANSFER"
        /\ t.from_account_id = q.sender_account_id
        /\ t.to_account_id = q.receiver_account_id
        /\ 2 * t.amount = q.amount

\* The handler of connection c, past its checks, returns in this step.
TransferEnds(c) == pc[c] # "idle" /\ pc'[c] = "idle"

\* C11 (as the specification states it): every successful money_transfer
\* appends exactly one TRANSFER entry from the sender to the receiver over the
\* transferred amount; and a transfer of whole cents that the sender's balance
\* covers, between two accounts, alone in the service, is successful and ends
\* with the sender at balance - amount and the receiver at balance + amount.
C11_Original ==
    [][TransferEnds(1) =>
          /\ resp'[1] = Transfer201 => TransferEntryAppended(req[1])
          /\ (req[1].amount % 2 = 0
                 /\ req[1].sender_account_id # req[1].receiver_account_id) =>
                /\ resp'[1] = Transfer201
                /\ account' = [account EXCEPT
                      ![req[1].sender_account_id].balance = @ - req[1].amount \div 2,
                      ![req[1].receiver_account_id].balance = @ + req[1].amount \div 2]]_vars

\* The statements of money_transfer in the order they run.
Stage(p) ==
    CASE p = "debit" -> 1
      [] p = "credit" -> 2
      [] p = "insert" -> 3
      [] p = "commit" -> 4
      [] OTHER -> 5

\* C12: a money_transfer that fails has committed nothing and leaves nothing
\* pending on its connection; the handler runs each of its statements at most
\* once for a request and never starts over; and a request that succeeds has
\* moved its amount exactly once.  So a caller who repeats a failed transfer
\* until it succeeds has the amount moved once.
C12_RetrySafe ==
    [][\A c \in Conns :
          /\ pc'[c] = "idle" => (wbal'[c] = NoWrites /\ wrows'[c] = {})
          /\ TransferStep(c) =>
                /\ req'[c] = req[c]
                /\ Stage(pc'[c]) > Stage(pc[c])
          /\ TransferEnds(c) =>
                IF resp'[c] = Transfer201
                THEN /\ account' = [account EXCEPT
                          ![req[c].sender_account_id].balance = @ - req[c].amount \div 2,
                          ![req[c].receiver_account_id].balance = @ + req[c].amount \div 2]
                     /\ Cardinality(transaction') = Cardinality(transaction) + 1
                ELSE account' = account /\ transaction' = transaction]_vars

\* One attempt of a transfer was given up on a lock wait and another attempt
\* of the same transfer has succeeded: the ledger holds one entry of it.
C12_Witness ==
    \E c, d \in Conns :
        /\ c # d
        /\ pc[c] = "idle" /\ resp[c] = "500 lock wait"
        /\ pc[d] = "idle" /\ resp[d] = Transfer201
        /\ req[c] = req[d]
        /\ req[c].sender_account_id # req[c].receiver_account_id
        /\ Cardinality({t \in transaction :
               /\ t.transaction_type = "TRANSFER"
               /\ t.from_account_id = req[c].sender_account_id
               /\ t.to_account_id = req[c].receiver_account_id}) = 1

\* C13 (as the specification states it): the ledger is append-only: over any
\* sequence of the operations the service exposes, every entry once committed
\* stays in the ledger with its source, destination, kind, amount and
\* timestamp unchanged.
C13_Original == [][transaction \subseteq transaction']_vars

\* C14 (as the specification states it): a money_transfer from an account to
\* itself, by its owner and covered by its balance, succeeds, leaves the
\* balance exactly as it was and appends one TRANSFER entry.
C14_Original ==
    [][(TransferEnds(1)
            /\ req[1].sender_account_id = req[1].receiver_account_id) =>
          /\ resp'[1] = Transfer201
          /\ account' = account
          /\ TransferEntryAppended(req[1])]_vars

\* C15 (as the specification states it): two concurrent transfers in opposite
\* directions between one pair of accounts, each covered by its sender's
\* balance, never wait for each other, and neither is aborted because of the
\* order in which the two account rows are locked.
C15_Original ==
    \A c, d \in Conns : c # d =>
        /\ ~(Blocked(c) /\ Blocked(d))
        /\ resp[c] # "500 lock wait"

ReportedDelta(c, a) ==
    IF TransferEnds(c) /\ resp'[c] = Transfer201
    THEN (IF a = req[c].receiver_account_id THEN req[c].amount ELSE 0)
         - (IF a = req[c].sender_account_id THEN req[c].amount ELSE 0)
    ELSE IF /\ Arrives(c, "update_account_balance")
            /\ resp'[c] = "200 account balance updated"
            /\ a = req'[c].sender_account_id
    THEN req'[c].amount
    ELSE 0

RECURSIVE SumReported(_, _)
SumReported(S, a) ==
    IF S = {} THEN 0
    ELSE LET c == CHOOSE x \in S : TRUE
         IN  ReportedDelta(c, a) + SumReported(S \ {c}, a)

\* C17 (as the specification states it): reading the balance, checking it and
\* writing the new balance are one isolated unit in money_transfer and in
\* update_account_balance: whatever requests run on an account, every change
\* of its committed balance is the delta of a request that reports success,
\* and every reported success changes the balance by its delta -- so the final
\* balance is the initial one plus the deltas of the successful requests.
C17_Original ==
    [][\A a \in DOMAIN account :
          2 * (account'[a].balance - account[a].balance) = SumReported(Conns, a)]_vars


\* C16: no intermediate state of a transfer is visible to another request.  A
\* reader that is served while transfers hold uncommitted writes is answered
\* with the committed rows of the account table, or of the ledger, and with
\* nothing else; and the committed rows change only in the one step in which a
\* transfer answers 201, by the debit, the credit and the ledger entry together.
C16_NoIntermediateState ==
    [][/\ \A c \in Conns :
            /\ Arrives(c, "get_accounts") => resp'[c] = jsonify(account)
            /\ Arrives(c, "get_transactions") =>
                  \E rows \in fetchall(transaction) : resp'[c] = jsonify(rows)
       /\ (account' # account \/ transaction' # transaction) =>
            \E c \in Conns :
                /\ TransferEnds(c)
                /\ resp'[c] = Transfer201
                /\ TransferEntryAppended(req[c])
                /\ account' =
                     [account EXCEPT
                        ![req[c].sender_account_id].balance = @ - req[c].amount \div 2,
                        ![req[c].receiver_account_id].balance = @ + req[c].amount \div 2]]_vars

\* A reader has been answered with the committed rows while the other
\* connection stands between its debit and its credit: the sender's balance it
\* has written differs from the committed one.
C16_Witness ==
    \E c, d \in Conns :
        /\ c # d
        /\ req[c].op = "get_accounts"
        /\ resp[c] = jsonify(account)
        /\ pc[d] = "credit"
        /\ req[d].sender_account_id \in DOMAIN wbal[d]
        /\ wbal[d][req[d].sender_account_id] # account[req[d].sender_account_id].balance


\* C20 (as the specification states it): the per-account ledger query answers
\* with exactly the entries whose source or destination is the given account,
\* each once, in ascending order of their timestamps.
C20_Original ==
    [][\A c \in Conns :
          (Arrives(c, "get_account_transactions")
             /\ req'[c].sender_account_id # NotUUID) =>
          \E rows \in fetchall({t \in transaction :
                        \/ t.from_account_id = req'[c].sender_account_id
                        \/ t.to_account_id = req'[c].sender_account_id}) :
              /\ resp'[c] = jsonify(rows)
              /\ \A i, j \in DOMAIN rows :
                    i < j => rows[i].transaction_timestamp <= rows[j].transaction_timestamp]_vars


CreationArrives(c) ==
    Arrives(c, "create_account") \/ Arrives(c, "AccountResourceAll.post")

\* C22: a request that creates an account adds one row whose balance is the
\* opening balance the request gives, 0 when it gives none, and that balance
\* is >= 0; it leaves every other account as it was and appends no ledger
\* entry.  A creation request that is refused adds and changes nothing.
C22_AccountCreation ==
    [][\A c \in Conns : CreationArrives(c) =>
          /\ transaction' = transaction
          /\ \A a \in DOMAIN account :
                a \in DOMAIN account' /\ account'[a] = account[a]
          /\ \A n \in DOMAIN account' \ DOMAIN account :
                /\ DOMAIN account' = DOMAIN account \cup {n}
                /\ account'[n].balance >= 0
                /\ 2 * account'[n].balance =
                      (IF req'[c].has_amount THEN req'[c].amount ELSE 0)]_vars

\* An account has been created, with balance 0, beside an account that holds
\* money and a ledger that holds an entry.
C22_Witness ==
    /\ req[1].op = "create_account"
    /\ resp[1] = "201 account created"
    /\ 3 \in DOMAIN account
    /\ account[3].balance = 0
    /\ \E a \in DOMAIN account : account[a].balance > 0
    /\ transaction # {}


\* The request has no valid amount (missing, zero or negative) or names an
\* account by a string that is no UUID.
InvalidInput(q) ==
    \/ ~q.has_amount
    \/ q.amount <= 0
    \/ q.sender_account_id = NotUUID
    \/ q.receiver_account_id = NotUUID

\* C23 (as the specification states it): a money_transfer with an invalid
\* amount or a malformed account id is rejected before the request makes any
\* access to storage, that is without ever opening a connection, and changes
\* no state.
C23_Original ==
    [][\A c \in Conns :
          (Arrives(c, "money_transfer") /\ InvalidInput(req'[c])) =>
              /\ pc'[c] = "idle"
              /\ resp'[c] \notin {"pending", Transfer201}
              /\ connection'[c] = "none"
              /\ NothingWritten]_vars

\* C23 (amended): a money_transfer with an invalid amount or a malformed
\* account id is rejected and changes no state: nothing is written, committed
\* or pending.  The request has by then opened a connection, which it closes
\* on the way out.
C23_RejectedWithoutWrite ==
    [][\A c \in Conns :
          (Arrives(c, "money_transfer") /\ InvalidInput(req'[c])) =>
              /\ pc'[c] = "idle"
              /\ resp'[c] \notin {"pending", Transfer201}
              /\ connection'[c] = "closed"
              /\ NothingWritten]_vars

\* The owner of an account that holds money has asked for a transfer of a
\* negative amount and has been refused.
C23_Witness ==
    \E c \in Conns :
        /\ req[c].op = "money_transfer"
        /\ req[c].amount < 0
        /\ req[c].sender_account_id \in DOMAIN account
        /\ account[req[c].sender_account_id].customer_id = req[c].customer_id
        /\ account[req[c].sender_account_id].balance > 0
        /\ resp[c] = "400 amount must be greater than 0"
        /\ connection[c] = "closed"


\* The account table without the row of account a.
WithoutAccount(acc, a) == [x \in DOMAIN acc \ {a} |-> acc[x]]

\* C24 (as the specification states it): what money_transfer answers to a
\* caller who does not own the sender account is what it would answer, to the
\* same request, if that account did not exist.
C24_Original ==
    [][\A c \in Conns :
          LET q == req'[c] IN
          (/\ Arrives(c, "money_transfer")
           /\ q.sender_account_id \in DOMAIN account
           /\ account[q.sender_account_id].customer_id # q.customer_id) =>
              resp'[c] = money_transfer_checks(
                             q.customer_id, q.sender_account_id,
                             q.receiver_account_id, <<q.has_amount, q.amount>>,
                             WithoutAccount(account, q.sender_account_id))]_vars


ErrorOutcomes ==
    {"500 check_balance_positive", "500 no default for transaction_id",
     "500 duplicate entry for PRIMARY", "500 foreign key",
     "500 check_amount_positive", "500 lock wait"}

\* C25: when a money_transfer returns its success response, the debit, the
\* credit and the ledger entry it wrote are all there and are committed in
\* that step; when it returns anything else, that is an error outcome, and
\* nothing of the request is committed or left pending.
C25_NoSwallowedFailure ==
    [][\A c \in Conns : TransferEnds(c) =>
          IF resp'[c] = Transfer201
          THEN /\ req[c].sender_account_id \in DOMAIN wbal[c] \cap DOMAIN account
               /\ req[c].receiver_account_id \in DOMAIN wbal[c] \cap DOMAIN account
               /\ \E t \in wrows[c] :
                     /\ wrows[c] = {t}
                     /\ t.transaction_type = "TRANSFER"
                     /\ t.from_account_id = req[c].sender_account_id
                     /\ t.to_account_id = req[c].receiver_account_id
               /\ account' = ApplyWrites(account, wbal[c])
               /\ transaction' = transaction \cup wrows[c]
               /\ wrows[c] \cap transaction = {}
          ELSE /\ resp'[c] \in ErrorOutcomes
               /\ account' = account
               /\ transaction' = transaction
               /\ wbal'[c] = NoWrites
               /\ wrows'[c] = {}]_vars

\* The receiver was deleted while the transfer was in flight: the credit
\* found no row, the INSERT failed on its foreign key, and the request has
\* rolled back its debit and answered with the error.
C25_Witness ==
    \E c \in Conns :
        /\ req[c].op = "money_transfer"
        /\ resp[c] = "500 foreign key"
        /\ pc[c] = "idle"
        /\ req[c].sender_account_id \in DOMAIN account
        /\ req[c].receiver_account_id \notin DOMAIN account
        /\ account[req[c].sender_account_id].balance > 0
        /\ wbal[c] = NoWrites
        /\ wrows[c] = {}


\* The sum of the balances of the accounts in S, in the table acc.
RECURSIVE SumBalances(_, _)
SumBalances(acc, S) ==
    IF S = {} THEN 0
    ELSE LET a == CHOOSE x \in S : TRUE
         IN  acc[a].balance + SumBalances(acc, S \ {a})

\* C29 (as the specification states it): no step of a money_transfer request,
\* successful or failed, a self-transfer or one that is rolled back, changes
\* the sum of the committed balances of all accounts.
C29_Original ==
    [][SumBalances(account', DOMAIN account') =
       SumBalances(account, DOMAIN account)]_vars

\* C30 (as the specification states it): once a handler has returned, the
\* connection it opened, if it opened one, is closed, on the success path,
\* on a validation error, on not-found and on an exception alike.
C30_Original ==
    \A c \in Conns : pc[c] = "idle" => connection[c] # "open"

\* The payments recorded for loan l, and what is left of its principal.
PaymentsOf(l) == {p \in loan_payment : p.loan_id = l.loan_id}

RECURSIVE SumPayments(_)
SumPayments(P) ==
    IF P = {} THEN 0
    ELSE LET p == CHOOSE x \in P : TRUE
         IN  p.payment_amount + SumPayments(P \ {p})

RemainingOf(l) == l.principal_amount - SumPayments(PaymentsOf(l))

\* C27 (as the specification states it): a create_loan_payment whose amount
\* exceeds what remains of the loan is answered with the validation error
\* and records nothing; for every loan the recorded payments sum to at most
\* the principal, and every stored remaining_balance is the principal less
\* the payments recorded up to and including that one.
C27_Original ==
    /\ [](\A l \in loan :
            /\ SumPayments(PaymentsOf(l)) <= l.principal_amount
            /\ \A p \in PaymentsOf(l) :
                  p.remaining_balance = l.principal_amount - SumPayments(
                      {q \in PaymentsOf(l) : q.loan_payment_id <= p.loan_payment_id}))
    /\ [][\A c \in Conns : \A l \in loan :
            /\ Arrives(c, "create_loan_payment")
            /\ req'[c].sender_account_id = l.loan_id
            /\ req'[c].has_amount
            /\ req'[c].amount > RemainingOf(l)
            => /\ resp'[c] = "400 payment amount exceeds remaining principal"
               /\ loan_payment' = loan_payment]_vars

\* C28 (as the specification states it): whatever take_loan requests have
\* run and however they interleaved, no customer has more than one loan with
\* status ACTIVE.
C28_Original ==
    \A k \in Customers :
        Cardinality({l \in loan : l.customer_id = k /\ l.status = "ACTIVE"}) <= 1

============================================================================
